---- MODULE Spec2Model ----
(***************************************************************************)
(* Authentication / authorization layer of the Nest-refresher repository:  *)
(* token issuance, guard chain (AtGuard, RtGuard, RolesGuard), refresh     *)
(* rotation and sign-out, over the users table.                            *)
(***************************************************************************)
EXTENDS Integers, Sequences, FiniteSets, TLC

(* ---------------------------------------------------------------------- *)
(* Bounds of the model                                                    *)
(* ---------------------------------------------------------------------- *)
\* the clock stops here
MaxTime == 1
\* sign-ins, refreshes, sign-outs, removals and role changes that change
\* the table or the tokens in circulation
MaxEvents == 2

\* calls of the employees controller
MaxCalls == 4

\* JWT_ACCESS_TOKEN_EXPIRATION_TIME and JWT_REFRESH_TOKEN_EXPIRATION_TIME,
\* in clock ticks: an access token outlives no run of the clock, a refresh
\* token outlives them all
AccessTTL == MaxTime
RefreshTTL == MaxTime + 1

(* ---------------------------------------------------------------------- *)
(* Values                                                                 *)
(* ---------------------------------------------------------------------- *)
UserRole == {"Admin", "Organizer", "User", "Guest"}

UserIds == {1, 2}

Emails == [u \in UserIds |-> IF u = 1 THEN "a@x" ELSE "b@x"]

\* plaintext passwords
Passwords == {[text |-> "pw1"], [text |-> "pw2"]}

AT_SECRET == "JWT_ACCESS_TOKEN_SECRET"
RT_SECRET == "JWT_REFRESH_TOKEN_SECRET"

\* The first 72 bytes of a plaintext, which is all that bcrypt reads.  A
\* compact JWT begins with the 36 characters of its header and a dot; the
\* 35 that follow encode the first 26 bytes of the payload
\* {"sub":..,"email":"..: the subject and the start of the email.  The role,
\* iat, exp and the signature lie beyond.  A password is shorter than that.
Prefix72(x) ==
    IF "sub" \in DOMAIN x THEN [sub |-> x.sub, email |-> x.email] ELSE x

\* bcrypt digest of a plaintext (salt left out: compare is all that reads it)
Hash(x) == <<"bcrypt", Prefix72(x)>>

BcryptCompare(plain, hashed) == hashed = Hash(plain)

\* jwtService.signAsync(payload, {secret, expiresIn}): the token is a
\* function of the payload, the secret and the issue time in seconds
SignAsync(sub, email, role, secret, ttl, t) ==
    [secret |-> secret, sub |-> sub, email |-> email, role |-> role,
     iat |-> t, exp |-> t + ttl]

getTokens(userId, email, role, t) ==
    [accessToken  |-> SignAsync(userId, email, role, AT_SECRET, AccessTTL, t),
     refreshToken |-> SignAsync(userId, email, role, RT_SECRET, RefreshTTL, t)]

\* a token signed by somebody who does not hold either secret
ForgedTokens ==
    {[secret |-> "attacker", sub |-> 1, email |-> Emails[1], role |-> "Admin",
      iat |-> 0, exp |-> MaxTime + RefreshTTL + 1]}

(* ---------------------------------------------------------------------- *)
(* Request headers                                                        *)
(* ---------------------------------------------------------------------- *)
NoHeader == [kind |-> "none"]

Malformed == [kind |-> "malformed"]

Bearer(tok) == [kind |-> "bearer", token |-> tok]

(* ---------------------------------------------------------------------- *)
(* Route metadata.  A metadata cell is <<>> (nothing declared on that     *)
(* target) or <<v>> (SetMetadata(key, v) was applied to it).              *)
(* ---------------------------------------------------------------------- *)
Public == <<TRUE>>

Roles(roles) == <<roles>>

\* a lookup that prefers the controller's declaration
getAllAndOverride_ClassFirst(handlerMeta, classMeta) ==
    IF classMeta # <<>> THEN classMeta ELSE handlerMeta

\* Reflector.getAllAndOverride(key, [handler, class]): the first target
\* that carries the key wins
getAllAndOverride(handlerMeta, classMeta) ==
    IF handlerMeta # <<>> THEN handlerMeta ELSE classMeta

\* declared role arrays of the controllers
RoleLists ==
    {<<"Admin">>, <<"Admin", "User", "Organizer">>, <<"Admin", "Organizer", "User">>}

Route(h, pm, pc, rm, rc, gs) ==
    [handler |-> h, publicM |-> pm, publicC |-> pc,
     rolesM |-> rm, rolesC |-> rc, useGuards |-> gs]

\* AuthController: the two published versions of the refresh route differ
\* in the @Public() decorator
AuthRoutes ==
    {Route("signin", Public, <<>>, <<>>, <<>>, <<>>),
     Route("signout", <<>>, <<>>, <<>>, <<>>, <<"AtGuard">>),
     Route("refresh", <<>>, <<>>, <<>>, <<>>, <<"RtGuard">>),
     Route("refresh", Public, <<>>, <<>>, <<>>, <<"RtGuard">>)}

\* UsersController
UsersRoutes ==
    {Route("users.findAll", <<>>, <<>>, Roles(<<"Admin">>), <<>>, <<>>),
     Route("users.findOne", <<>>, <<>>,
           Roles(<<"Admin", "User", "Organizer">>), <<>>, <<>>),
     Route("users.remove", <<>>, <<>>, Roles(<<"Admin">>), <<>>, <<>>)}

\* UsersController: the routes that write rows
UsersWriteRoutes ==
    {Route("users.create", Public, <<>>, <<>>, <<>>, <<>>),
     Route("users.update", <<>>, <<>>,
           Roles(<<"Admin", "Organizer", "User">>), <<>>, <<>>)}

\* every way a handler and its controller can be decorated
Declarations ==
    {Route("resource", pm, pc, rm, rc, <<>>) :
        pm \in {<<>>, Public}, pc \in {<<>>, Public},
        rm \in {<<>>} \cup {Roles(l) : l \in RoleLists},
        rc \in {<<>>, Roles(<<"Admin">>)}}

\* The guard wiring of the application, in its three published versions:
\* global APP_GUARD providers in registration order, and the guards that
\* the resource controllers carry in @UseGuards
Apps ==
    {[global |-> <<>>, ctrl |-> <<"AtGuard", "RolesGuard">>],
     [global |-> <<"RolesGuard">>, ctrl |-> <<>>],
     [global |-> <<"RolesGuard", "AtGuard">>, ctrl |-> <<>>]}

(* ---------------------------------------------------------------------- *)
(* State                                                                  *)
(* ---------------------------------------------------------------------- *)
VARIABLES
    app,         \* guard wiring of the running application
    users,       \* users table: user_id -> row
    now,         \* clock, in seconds
    issued,      \* tokens handed out in responses so far
    consumed,    \* refresh tokens a successful refresh was made with
    signedOut,   \* subjects signed out and not signed in since
    events,      \* number of changes so far
    nextId,      \* next value of the user_id sequence
    procs,       \* refresh requests in flight, each between two awaits
    last,        \* the most recent request and its response
    updates,     \* calls of UsersService.update in flight
    books,       \* books table: id -> row
    employees    \* the employees array of the employees controller

vars == <<app, users, now, issued, consumed, signedOut, events, nextId, procs, last,
          updates, books, employees>>

\* what the users routes and the authentication routes leave alone
others == <<updates, books, employees>>

\* usersRepository.findOne({ where: { user_id } })
findOne(tbl, id) == IF id \in DOMAIN tbl THEN <<tbl[id]>> ELSE <<>>

\* usersRepository.findOne({ where: { email } })
findByEmail(tbl, email) ==
    LET m == {u \in DOMAIN tbl : tbl[u].email = email}
    IN IF m = {} THEN <<>> ELSE LET u == CHOOSE x \in m : TRUE
                                 IN <<[user_id |-> u] @@ tbl[u]>>

(* ---------------------------------------------------------------------- *)
(* Guards                                                                 *)
(* ---------------------------------------------------------------------- *)
\* a verification that still accepts the token at its expiry instant
VerifyJwt_Inclusive(hdr, secret, t) ==
    /\ hdr.kind = "bearer"
    /\ hdr.token.secret = secret
    /\ t <= hdr.token.exp

\* a verification that does not look at the key
VerifyJwt_AnySecret(hdr, secret, t) ==
    /\ hdr.kind = "bearer"
    /\ t < hdr.token.exp

\* passport-jwt: bearer extraction, signature and expiry
VerifyJwt(hdr, secret, t) ==
    /\ hdr.kind = "bearer"
    /\ hdr.token.secret = secret
    /\ t < hdr.token.exp

\* AccessStrategy.validate
AccessValidate(payload) ==
    [user_id |-> payload.sub, email |-> payload.email, role |-> payload.role]

\* RefreshStrategy.validate
RefreshValidate(payload) ==
    [sub |-> payload.sub, email |-> payload.email, refreshToken |-> payload]

\* a guard's step on the request: req.user is a cell, status 0 = go on
AtGuard(route, hdr, t, req) ==
    LET isPublic == getAllAndOverride(route.publicM, route.publicC)
    IN IF isPublic # <<>> /\ isPublic[1]
       THEN [req EXCEPT !.trace = Append(@, [guard |-> "AtGuard", pass |-> TRUE])]
       ELSE IF VerifyJwt(hdr, AT_SECRET, t)
            THEN [req EXCEPT !.user = <<AccessValidate(hdr.token)>>,
                             !.trace = Append(@, [guard |-> "AtGuard", pass |-> TRUE])]
            ELSE [req EXCEPT !.status = 401,
                             !.trace = Append(@, [guard |-> "AtGuard", pass |-> FALSE])]

RtGuard(route, hdr, t, req) ==
    IF VerifyJwt(hdr, RT_SECRET, t)
    THEN [req EXCEPT !.user = <<RefreshValidate(hdr.token)>>,
                     !.trace = Append(@, [guard |-> "RtGuard", pass |-> TRUE])]
    ELSE [req EXCEPT !.status = 401,
                     !.trace = Append(@, [guard |-> "RtGuard", pass |-> FALSE])]

\* a membership test that looks at the first declared role only
some_FirstOnly(requiredRoles, role) ==
    requiredRoles # <<>> /\ Head(requiredRoles) = role

\* requiredRoles.some((role) => verifiedUser.role === role)
RECURSIVE some(_, _)
some(requiredRoles, role) ==
    IF requiredRoles = <<>> THEN FALSE
    ELSE Head(requiredRoles) = role \/ some(Tail(requiredRoles), role)

\* a guard that falls back on the role of the token when the row is gone
RolesGuardCanActivate_TokenRole(route, user, tbl) ==
    LET requiredRoles == getAllAndOverride(route.rolesM, route.rolesC)
    IN IF requiredRoles = <<>> THEN TRUE
       ELSE IF user = <<>> THEN FALSE
       ELSE LET verifiedUser ==
                    IF "user_id" \in DOMAIN user[1]
                    THEN findOne(tbl, user[1].user_id) ELSE <<>>
            IN IF verifiedUser = <<>> THEN some(requiredRoles[1], user[1].role)
               ELSE some(requiredRoles[1], verifiedUser[1].role)

\* a guard that looks for the identity before it looks for the declaration
RolesGuardCanActivate_UserFirst(route, user, tbl) ==
    LET requiredRoles == getAllAndOverride(route.rolesM, route.rolesC)
    IN IF user = <<>> THEN FALSE
       ELSE IF requiredRoles = <<>> THEN TRUE
       ELSE LET verifiedUser ==
                    IF "user_id" \in DOMAIN user[1]
                    THEN findOne(tbl, user[1].user_id) ELSE <<>>
            IN IF verifiedUser = <<>> THEN FALSE
               ELSE some(requiredRoles[1], verifiedUser[1].role)

\* RolesGuard.canActivate
RolesGuardCanActivate(route, user, tbl) ==
    LET requiredRoles == getAllAndOverride(route.rolesM, route.rolesC)
    IN IF requiredRoles = <<>> THEN TRUE
       ELSE IF user = <<>> THEN FALSE
       ELSE LET verifiedUser ==
                    IF "user_id" \in DOMAIN user[1]
                    THEN findOne(tbl, user[1].user_id) ELSE <<>>
            IN IF verifiedUser = <<>> THEN FALSE
               ELSE some(requiredRoles[1], verifiedUser[1].role)

RolesGuard(route, tbl, req) ==
    LET ok == RolesGuardCanActivate(route, req.user, tbl)
        entry == [guard |-> "RolesGuard", pass |-> ok]
    IN [req EXCEPT !.status = IF ok THEN 0 ELSE 403,
                   !.rolesRan = TRUE,
                   !.rolesUser = req.user,
                   !.rolesPass = ok,
                   !.trace = Append(@, entry)]

\* GuardsConsumer.tryActivate: guards run in order, the first refusal ends
\* the request
RECURSIVE RunGuards(_, _, _, _, _, _)
RunGuards(gs, route, hdr, tbl, t, req) ==
    IF gs = <<>> \/ req.status # 0 THEN req
    ELSE LET g == Head(gs)
             r == IF g = "AtGuard" THEN AtGuard(route, hdr, t, req)
                  ELSE IF g = "RtGuard" THEN RtGuard(route, hdr, t, req)
                  ELSE RolesGuard(route, tbl, req)
         IN RunGuards(Tail(gs), route, hdr, tbl, t, r)

NewRequest ==
    [status |-> 0, user |-> <<>>, trace |-> <<>>,
     rolesRan |-> FALSE, rolesUser |-> <<>>, rolesPass |-> FALSE]

\* global guards first, then the controller's and the method's
GuardsOf(a, route) ==
    a.global \o (IF route \in AuthRoutes THEN <<>> ELSE a.ctrl) \o route.useGuards

Guarded(a, route, hdr, tbl, t) ==
    RunGuards(GuardsOf(a, route), route, hdr, tbl, t, NewRequest)

(* ---------------------------------------------------------------------- *)
(* Services.  A handler's outcome is the response status, the users table *)
(* it leaves and the tokens in the response body.                          *)
(* ---------------------------------------------------------------------- *)
Outcome(status, tbl, tokens) ==
    [status |-> status, users |-> tbl, tokens |-> tokens]

\* AuthService.saveRefreshToken: the hash of the token overwrites the row's
saveRefreshToken(tbl, id, refreshToken) ==
    [tbl EXCEPT ![id].hashedRefreshToken = <<Hash(refreshToken)>>]

\* a sign-in that issues tokens to whoever names a registered email
signIn_NoPasswordCheck(tbl, email, password, t) ==
    LET foundUser == findByEmail(tbl, email)
    IN IF foundUser = <<>> THEN Outcome(404, tbl, {})
       ELSE LET tk == getTokens(foundUser[1].user_id, foundUser[1].email,
                                foundUser[1].role, t)
            IN Outcome(200,
                       saveRefreshToken(tbl, foundUser[1].user_id, tk.refreshToken),
                       {tk.accessToken, tk.refreshToken})

\* AuthService.signIn
signIn(tbl, email, password, t) ==
    LET foundUser == findByEmail(tbl, email)
    IN IF foundUser = <<>> THEN Outcome(404, tbl, {})
       ELSE IF ~BcryptCompare(password, foundUser[1].password)
            THEN Outcome(404, tbl, {})
       ELSE LET tk == getTokens(foundUser[1].user_id, foundUser[1].email,
                                foundUser[1].role, t)
            IN Outcome(200,
                       saveRefreshToken(tbl, foundUser[1].user_id, tk.refreshToken),
                       {tk.accessToken, tk.refreshToken})

\* a refresh that issues tokens for any token when a hash is stored
refreshTokens_NoCompare(tbl, id, refreshToken, t) ==
    LET foundUser == findOne(tbl, id)
    IN IF foundUser = <<>> THEN Outcome(404, tbl, {})
       ELSE IF foundUser[1].hashedRefreshToken = <<>> THEN Outcome(404, tbl, {})
       ELSE LET tk == getTokens(id, foundUser[1].email, foundUser[1].role, t)
            IN Outcome(200, saveRefreshToken(tbl, id, tk.refreshToken),
                       {tk.accessToken, tk.refreshToken})

\* a refresh that compares the token only when a hash is stored
refreshTokens_NoHashCheck(tbl, id, refreshToken, t) ==
    LET foundUser == findOne(tbl, id)
    IN IF foundUser = <<>> THEN Outcome(404, tbl, {})
       ELSE IF /\ foundUser[1].hashedRefreshToken # <<>>
               /\ ~BcryptCompare(refreshToken, foundUser[1].hashedRefreshToken[1])
            THEN Outcome(404, tbl, {})
       ELSE LET tk == getTokens(id, foundUser[1].email, foundUser[1].role, t)
            IN Outcome(200, saveRefreshToken(tbl, id, tk.refreshToken),
                       {tk.accessToken, tk.refreshToken})

\* a refresh that copies the role of the token it was given
refreshTokens_TokenRole(tbl, id, refreshToken, t) ==
    LET foundUser == findOne(tbl, id)
    IN IF foundUser = <<>> THEN Outcome(404, tbl, {})
       ELSE IF foundUser[1].hashedRefreshToken = <<>> THEN Outcome(404, tbl, {})
       ELSE IF ~BcryptCompare(refreshToken, foundUser[1].hashedRefreshToken[1])
            THEN Outcome(404, tbl, {})
       ELSE LET tk == getTokens(id, foundUser[1].email, refreshToken.role, t)
            IN Outcome(200, saveRefreshToken(tbl, id, tk.refreshToken),
                       {tk.accessToken, tk.refreshToken})

\* AuthService.refreshTokens
refreshTokens(tbl, id, refreshToken, t) ==
    LET foundUser == findOne(tbl, id)
    IN IF foundUser = <<>> THEN Outcome(404, tbl, {})
       ELSE IF foundUser[1].hashedRefreshToken = <<>> THEN Outcome(404, tbl, {})
       ELSE IF ~BcryptCompare(refreshToken, foundUser[1].hashedRefreshToken[1])
            THEN Outcome(404, tbl, {})
       ELSE LET tk == getTokens(id, foundUser[1].email, foundUser[1].role, t)
            IN Outcome(200, saveRefreshToken(tbl, id, tk.refreshToken),
                       {tk.accessToken, tk.refreshToken})

\* JavaScript values of the two types an id takes: the number n and the
\* decimal string of n
JsNumber(n) == [type |-> "number", value |-> n]

JsString(n) == [type |-> "string", value |-> n]

\* a === b: no conversion between types
StrictEquals(a, b) == a.type = b.type /\ a.value = b.value

\* ParseIntPipe.transform
ParseIntPipe(v) == JsNumber(v.value)

\* @Query('id') id: string in AuthController, @Query('id', ParseIntPipe)
\* id: number in the version of the route that is declared @Public()
QueryId(route, n) ==
    IF route.publicM = Public THEN ParseIntPipe(JsString(n)) ELSE JsString(n)

\* AuthController.refreshTokens: the subject of the payload is a number
refreshController(tbl, id, user, t) ==
    IF ~StrictEquals(JsNumber(user.sub), id) THEN Outcome(401, tbl, {})
    ELSE refreshTokens(tbl, id.value, user.refreshToken, t)

\* AuthService.signOut: remove the stored refresh token
signOut(tbl, id) ==
    IF id \notin DOMAIN tbl THEN Outcome(401, tbl, {})
    ELSE Outcome(200, [tbl EXCEPT ![id].hashedRefreshToken = <<>>], {})

\* UsersService.create: the DTO is saved as it comes, password included;
\* the unique index on email makes the insert fail (QueryFailedError, 500)
create(tbl, dto, id) ==
    IF \E u \in DOMAIN tbl : tbl[u].email = dto.email
    THEN Outcome(500, tbl, {})
    ELSE Outcome(201,
                 [u \in DOMAIN tbl \cup {id} |->
                    IF u = id
                    THEN [email |-> dto.email, password |-> <<"raw", dto.password>>,
                          role |-> IF dto.role = <<>> THEN "User" ELSE dto.role[1],
                          hashedRefreshToken |-> <<>>]
                    ELSE tbl[u]],
                 {})

\* UsersService.update: the fields the DTO carries overwrite the row's; a
\* failure of the UPDATE is rethrown as a plain Error (500)
update(tbl, id, dto) ==
    IF id \notin DOMAIN tbl THEN Outcome(404, tbl, {})
    ELSE IF /\ dto.email # <<>>
            /\ \E u \in DOMAIN tbl \ {id} : tbl[u].email = dto.email[1]
         THEN Outcome(500, tbl, {})
    ELSE Outcome(200,
                 [tbl EXCEPT
                    ![id].email = IF dto.email = <<>> THEN @ ELSE dto.email[1],
                    ![id].role = IF dto.role = <<>> THEN @ ELSE dto.role[1]],
                 {})

\* UsersService.remove
remove(tbl, id) ==
    IF id \notin DOMAIN tbl THEN Outcome(404, tbl, {})
    ELSE Outcome(200, [u \in DOMAIN tbl \ {id} |-> tbl[u]], {})

(* ---------------------------------------------------------------------- *)
(* Requests                                                               *)
(* ---------------------------------------------------------------------- *)
\* the Authorization header a client can send: none, one without the
\* Bearer prefix, a token it was given or one it made up; the public
\* sign-in is sent without one
Headers(route) ==
    IF route.handler = "signin" THEN {NoHeader}
    ELSE {NoHeader, Malformed} \cup {Bearer(tok) : tok \in issued \cup ForgedTokens}

\* bodies of POST /users: role is optional
CreateDtos ==
    [email : {Emails[1], "c@x"}, password : {[text |-> "pw1"]},
     role : {<<>>, <<"Admin">>}]

\* bodies of PATCH /users/:id: every field is optional, password is left out
UpdateDtos ==
    {[email |-> <<>>, role |-> <<"Admin">>],
     [email |-> <<Emails[1]>>, role |-> <<>>],
     [email |-> <<"c@x">>, role |-> <<>>]}

SomeEmails == {Emails[u] : u \in UserIds} \cup {"nobody@x"}

\* the request's inputs other than the header
Inputs(route) ==
    IF route.handler = "signin"
    THEN [email : SomeEmails, password : Passwords]
    ELSE IF route.handler \in {"signout", "refresh", "users.remove"}
    THEN [id : UserIds]
    ELSE IF route.handler = "users.create" THEN [dto : CreateDtos]
    ELSE IF route.handler = "users.update" THEN [id : UserIds, dto : UpdateDtos]
    ELSE {[none |-> TRUE]}

Handle(route, in, tbl, user, t) ==
    IF route.handler = "signin" THEN signIn(tbl, in.email, in.password, t)
    ELSE IF route.handler = "signout" THEN signOut(tbl, in.id)
    ELSE IF route.handler = "refresh" THEN refreshController(tbl, QueryId(route, in.id), user[1], t)
    ELSE IF route.handler = "users.remove" THEN remove(tbl, in.id)
    ELSE IF route.handler = "users.create" THEN create(tbl, in.dto, nextId)
    ELSE IF route.handler = "users.update" THEN update(tbl, in.id, in.dto)
    ELSE Outcome(200, tbl, {})

\* the requests that can be in flight together
Procs == {"p1", "p2"}

\* a slot with no request in it
Idle ==
    [pc |-> "idle", id |-> 0, token |-> <<>>, found |-> <<>>,
     tokens |-> {}, status |-> 0, overlap |-> FALSE]

NoRequest ==
    [handler |-> "none", user |-> <<>>, invoked |-> FALSE,
     status |-> 0, tokens |-> {}]

\* a slot with no call of update in it
IdleUpdate ==
    [pc |-> "idle", id |-> 0, dto |-> <<>>, status |-> 0, result |-> <<>>,
     wrote |-> FALSE]

\* the books there are at the start: book 1 of user 2, book 2 of user 3
InitBooks == [b \in {1, 2} |-> [authorId |-> b + 1, rev |-> 0]]

\* private employees: IEmployee[] = [...]; a field other than the id is a
\* cell, <<>> when it is undefined
InitEmployees ==
    <<[id |-> 1, name |-> <<"John Doe">>, age |-> <<30>>, department |-> <<"IT">>],
      [id |-> 2, name |-> <<"Jane Doe">>, age |-> <<25>>, department |-> <<"HR">>],
      [id |-> 3, name |-> <<"John Smith">>, age |-> <<35>>, department |-> <<"Finance">>]>>

Init ==
    /\ app \in Apps
    /\ users = [u \in UserIds |->
                  [email |-> Emails[u], password |-> Hash([text |-> "pw1"]),
                   role |-> IF u = 1 THEN "Admin" ELSE "User",
                   hashedRefreshToken |-> <<>>]]
    /\ now = 0
    /\ issued = {}
    /\ consumed = {}
    /\ signedOut = {}
    /\ events = 0
    /\ nextId = Cardinality(UserIds) + 1
    /\ procs = [p \in Procs |-> Idle]
    /\ last = NoRequest
    /\ updates = [p \in Procs |-> IdleUpdate]
    /\ books = InitBooks
    /\ employees = InitEmployees

\* one HTTP request, from the guards to the response
Respond(route, hdr, in, g, o) ==
    LET ok == g.status = 0 /\ o.status = 200
        changed == o.users # users \/ ~(o.tokens \subseteq issued)
    IN /\ changed => events < MaxEvents
       /\ events' = IF changed THEN events + 1 ELSE events
       /\ last' = [handler |-> route.handler, user |-> g.user,
                   invoked |-> (g.status = 0), status |-> o.status,
                   tokens |-> o.tokens]
       /\ users' = o.users
       /\ nextId' = IF nextId \in DOMAIN o.users THEN nextId + 1 ELSE nextId
       /\ issued' = issued \cup o.tokens
       /\ consumed' = IF ok /\ route.handler = "refresh"
                      THEN consumed \cup {hdr.token} ELSE consumed
       /\ signedOut' = IF ok /\ route.handler = "signout"
                       THEN signedOut \cup {in.id}
                       ELSE IF ok /\ route.handler = "signin"
                       THEN signedOut \ {u \in UserIds : Emails[u] = in.email}
                       ELSE signedOut
       /\ UNCHANGED <<app, now, procs, others>>

Request(route, hdr, in) ==
    \E g \in {Guarded(app, route, hdr, users, now)} :
       \E o \in {IF g.status # 0 THEN Outcome(g.status, users, {})
                  ELSE Handle(route, in, users, g.user, now)} :
          Respond(route, hdr, in, g, o)

\* a role assigned directly in the database
DbSetRole(u, r) ==
    /\ u \in DOMAIN users
    /\ users[u].role # r
    /\ events < MaxEvents
    /\ events' = events + 1
    /\ users' = [users EXCEPT ![u].role = r]
    /\ UNCHANGED <<app, now, issued, consumed, signedOut, nextId, procs, last, others>>

Tick ==
    /\ now < MaxTime
    /\ now' = now + 1
    /\ UNCHANGED <<app, users, issued, consumed, signedOut, events, nextId, procs, last, others>>

\* the resource routes, with sign-in to obtain tokens and the database
\* administrator changing roles
Next ==
    \/ \E route \in UsersRoutes \cup {r \in AuthRoutes : r.handler = "signin"} :
          \E hdr \in Headers(route), in \in Inputs(route) : Request(route, hdr, in)
    \/ \E u \in UserIds, r \in UserRole : DbSetRole(u, r)
    \/ Tick

Spec == Init /\ [][Next]_vars

\* the authentication routes
NextSessions ==
    \/ \E route \in AuthRoutes :
          \E hdr \in Headers(route), in \in Inputs(route) : Request(route, hdr, in)
    \/ Tick

SpecSessions == Init /\ [][NextSessions]_vars

\* A refresh request taken one await at a time.  It enters the service
\* once the guards and the controller's comparison of ids let it through.
RefreshBegin(p, route, tok, id) ==
    /\ procs[p].pc = "idle"
    /\ route.handler = "refresh"
    /\ \E g \in {Guarded(app, route, Bearer(tok), users, now)} :
          /\ g.status = 0
          /\ StrictEquals(JsNumber(g.user[1].sub), QueryId(route, id))
          /\ procs' = [procs EXCEPT ![p] =
                          [Idle EXCEPT !.pc = "find", !.id = id,
                                       !.token = <<g.user[1].refreshToken>>]]
    /\ UNCHANGED <<app, users, now, issued, consumed, signedOut, events, nextId, last, others>>

\* await findOne, then the checks on the row it returned and the
\* comparison of the token with the hash of that row
RefreshFind(p) ==
    /\ procs[p].pc = "find"
    /\ LET foundUser == findOne(users, procs[p].id)
           refused == \/ foundUser = <<>>
                      \/ foundUser[1].hashedRefreshToken = <<>>
                      \/ ~BcryptCompare(procs[p].token[1],
                                        foundUser[1].hashedRefreshToken[1])
           inFlight == {q \in Procs \ {p} : procs[q].pc \in {"sign", "save"}}
       IN procs' = [q \in Procs |->
                      IF q = p
                      THEN IF refused
                           THEN [procs[p] EXCEPT !.pc = "done", !.status = 404]
                           ELSE [procs[p] EXCEPT !.pc = "sign", !.found = foundUser,
                                                 !.overlap = @ \/ inFlight # {}]
                      ELSE IF q \in inFlight /\ ~refused
                           THEN [procs[q] EXCEPT !.overlap = TRUE]
                           ELSE procs[q]]
    /\ UNCHANGED <<app, users, now, issued, consumed, signedOut, events, nextId, last, others>>

\* await getTokens, with the row that was read
RefreshSign(p) ==
    /\ procs[p].pc = "sign"
    /\ LET tk == getTokens(procs[p].id, procs[p].found[1].email,
                           procs[p].found[1].role, now)
       IN procs' = [procs EXCEPT ![p].pc = "save",
                                 ![p].tokens = {tk.accessToken, tk.refreshToken}]
    /\ UNCHANGED <<app, users, now, issued, consumed, signedOut, events, nextId, last, others>>

\* await saveRefreshToken, then the response with the new pair
RefreshSave(p) ==
    /\ procs[p].pc = "save"
    /\ procs[p].id \in DOMAIN users
    /\ LET rt == CHOOSE k \in procs[p].tokens : k.secret = RT_SECRET
           tbl == saveRefreshToken(users, procs[p].id, rt)
           changed == tbl # users \/ ~(procs[p].tokens \subseteq issued)
       IN /\ changed => events < MaxEvents
          /\ events' = IF changed THEN events + 1 ELSE events
          /\ users' = tbl
          /\ issued' = issued \cup procs[p].tokens
          /\ consumed' = consumed \cup {procs[p].token[1]}
          /\ procs' = [procs EXCEPT ![p].pc = "done", ![p].status = 200]
    /\ UNCHANGED <<app, now, signedOut, nextId, last, others>>

\* sign-ins, the clock, and refresh requests that overlap
NextConcurrent ==
    \/ \E route \in {r \in AuthRoutes : r.handler = "signin"} :
          \E hdr \in Headers(route), in \in Inputs(route) : Request(route, hdr, in)
    \/ Tick
    \/ \E p \in Procs, route \in {r \in AuthRoutes : r.handler = "refresh"} :
          \E tok \in issued, id \in UserIds : RefreshBegin(p, route, tok, id)
    \/ \E p \in Procs : RefreshFind(p)
    \/ \E p \in Procs : RefreshSign(p)
    \/ \E p \in Procs : RefreshSave(p)

SpecConcurrent == Init /\ [][NextConcurrent]_vars

\* the routes that write rows, with sign-in to obtain tokens
NextUsers ==
    \E route \in UsersWriteRoutes \cup {r \in AuthRoutes : r.handler = "signin"} :
       \E hdr \in Headers(route), in \in Inputs(route) : Request(route, hdr, in)

SpecUsers == Init /\ [][NextUsers]_vars

(* ---------------------------------------------------------------------- *)
(* Properties                                                             *)
(* ---------------------------------------------------------------------- *)
\* what a client can put in the Authorization header in this state
AllHeaders ==
    {NoHeader, Malformed} \cup {Bearer(tok) : tok \in issued \cup ForgedTokens}

\* routes under the resource controllers: those of UsersController and
\* every other combination of decorators
ResourceRoutes == Declarations \cup UsersRoutes

\* the role declaration in force on a route, <<>> when there is none
Declared(route) ==
    IF route.rolesM # <<>> THEN route.rolesM ELSE route.rolesC

RoleSet(route) ==
    {Declared(route)[1][i] : i \in 1..Len(Declared(route)[1])}

DeclaredPublic(route) == route.publicM = Public \/ route.publicC = Public

RoleRoutes == {r \in ResourceRoutes : Declared(r) # <<>>}

ProtectedRoutes == {r \in ResourceRoutes : ~DeclaredPublic(r)}

ProtectedRoleRoutes == RoleRoutes \cap ProtectedRoutes

PublicRoutes == {r \in ResourceRoutes : DeclaredPublic(r)}

\* an access token that still verifies, of a subject whose row exists
LiveAccess(tok) ==
    /\ tok.secret = AT_SECRET
    /\ now < tok.exp
    /\ tok.sub \in DOMAIN users

\* C1: when the stored role of a subject differs from the role embedded in
\* its still valid access token, a request with that token on a non-public
\* route that declares roles is let through exactly when the stored role is
\* one of the declared roles.
C1_RoleRefetch ==
    \A tok \in {k \in issued : LiveAccess(k)} :
       users[tok.sub].role # tok.role
       => \A route \in ProtectedRoleRoutes :
             Guarded(app, route, Bearer(tok), users, now).status = 0
             <=> users[tok.sub].role \in RoleSet(route)

\* C2: on a route that declares roles, when the role guard runs on an
\* identity whose row exists, it allows exactly when the stored role is one
\* of the declared roles, in whatever order they are declared.
C2_RoleMembership ==
    \A route \in RoleRoutes, hdr \in AllHeaders :
       \A g \in {Guarded(app, route, hdr, users, now)} :
          (/\ g.rolesRan
           /\ g.rolesUser # <<>>
           /\ g.rolesUser[1].user_id \in DOMAIN users)
          => (g.rolesPass <=>
                users[g.rolesUser[1].user_id].role \in RoleSet(route))

\* a User read one user: "User" is declared second of three
C2_Witness ==
    /\ last.handler = "users.findOne"
    /\ last.status = 200
    /\ last.user # <<>>
    /\ last.user[1].user_id \in DOMAIN users
    /\ users[last.user[1].user_id].role = "User"

\* C3: on a non-public route that declares roles, a request with a valid
\* access token of a subject whose stored role is declared passes the
\* access-token guard first and the role guard second, with the identity
\* attached, and reaches the handler.
C3_VerifierBeforeRoleGuard ==
    \A tok \in {k \in issued : LiveAccess(k)}, route \in ProtectedRoleRoutes :
       users[tok.sub].role \in RoleSet(route)
       => \A g \in {Guarded(app, route, Bearer(tok), users, now)} :
             /\ g.status = 0
             /\ g.user = <<AccessValidate(tok)>>
             /\ g.trace = <<[guard |-> "AtGuard", pass |-> TRUE],
                            [guard |-> "RolesGuard", pass |-> TRUE]>>

\* C4: a request without an Authorization header to a non-public route
\* that declares roles is answered 401, not 403.
C4_NoHeaderUnauthorized ==
    \A route \in ProtectedRoleRoutes :
       Guarded(app, route, NoHeader, users, now).status = 401

\* C5: on a route that is not declared public, whatever the header, the
\* handler is reached only with the identity of a valid access token
\* attached.
C5_ProtectedByDefault ==
    \A route \in ProtectedRoutes, hdr \in AllHeaders :
       \A g \in {Guarded(app, route, hdr, users, now)} :
          g.status = 0
          => /\ VerifyJwt(hdr, AT_SECRET, now)
             /\ g.user = <<AccessValidate(hdr.token)>>

\* C6: on a route declared public, a request without an Authorization
\* header reaches the handler with no identity attached, also when roles
\* are declared on the route or its controller.
C6_PublicBypass ==
    \A route \in PublicRoutes :
       \A g \in {Guarded(app, route, NoHeader, users, now)} :
          g.status = 0 /\ g.user = <<>>

\* the route with its declarations in force moved to the method and none
\* left on the controller
Nearest(route) ==
    [route EXCEPT
       !.publicM = IF route.publicM # <<>> THEN route.publicM ELSE route.publicC,
       !.publicC = <<>>,
       !.rolesM = IF route.rolesM # <<>> THEN route.rolesM ELSE route.rolesC,
       !.rolesC = <<>>]

\* C7: the guards decide a request by the method's declaration where the
\* method carries one and by the controller's only where the method carries
\* none: the outcome is that of the same request on the route that declares
\* the nearest value on the method and nothing on the controller.
C7_NearestDeclarationWins ==
    \A route \in Declarations, hdr \in AllHeaders :
       Guarded(app, route, hdr, users, now)
          = Guarded(app, Nearest(route), hdr, users, now)

\* a User holds a valid token that opens a route whose method declares
\* Admin, User, Organizer under a controller that declares Admin only
C7_Witness ==
    /\ app.ctrl = <<"AtGuard", "RolesGuard">>
    /\ last.handler = "users.findOne"
    /\ last.status = 200
    /\ \E tok \in issued :
          /\ LiveAccess(tok)
          /\ users[tok.sub].role = "User"
          /\ Guarded(app,
                     Route("resource", <<>>, <<>>,
                           Roles(<<"Admin", "User", "Organizer">>),
                           Roles(<<"Admin">>), <<>>),
                     Bearer(tok), users, now).status = 0

\* the two published refresh routes
RefreshRoutes == {r \in AuthRoutes : r.handler = "refresh"}

SignOutRoutes == {r \in AuthRoutes : r.handler = "signout"}

\* a refresh request for id with tok in the header would be answered with
\* a new pair of tokens
RefreshAccepted(route, tok, id) ==
    \E g \in {Guarded(app, route, Bearer(tok), users, now)} :
       /\ g.status = 0
       /\ Handle(route, [id |-> id], users, g.user, now).status = 200

\* C8: a refresh token that a successful refresh was made with is rejected
\* by every later refresh request that presents it.
C8_RefreshRotation ==
    \A tok \in consumed, route \in RefreshRoutes, id \in UserIds :
       ~RefreshAccepted(route, tok, id)

\* C9: of the refresh tokens issued to one subject, at most one can be
\* refreshed successfully at any time.
C9_SingleActiveRefreshToken ==
    \A u \in UserIds, route \in RefreshRoutes :
       Cardinality({tok \in issued : tok.sub = u /\ RefreshAccepted(route, tok, u)}) <= 1

C11_SignOutOwnIdOnly ==
    \A tok \in {k \in issued : LiveAccess(k)}, route \in SignOutRoutes :
       \A id \in DOMAIN users \ {tok.sub} :
          \A g \in {Guarded(app, route, Bearer(tok), users, now)} :
             g.status = 0
             => \A o \in {Handle(route, [id |-> id], users, g.user, now)} :
                   o.status # 200 /\ o.users = users

\* C13: a refresh request that passed the refresh-token guard is rejected
\* when the subject of its token is not the id of the query, and is answered
\* with a new pair of tokens when it is and the token matches the hash
\* stored for that subject.
C13_RefreshIdMatch ==
    \A route \in RefreshRoutes, tok \in issued, id \in UserIds :
       \A g \in {Guarded(app, route, Bearer(tok), users, now)} :
          g.status = 0
          => \A o \in {Handle(route, [id |-> id], users, g.user, now)} :
                /\ tok.sub # id => o.status # 200 /\ o.tokens = {}
                /\ (/\ tok.sub = id
                    /\ id \in DOMAIN users
                    /\ users[id].hashedRefreshToken # <<>>
                    /\ BcryptCompare(tok, users[id].hashedRefreshToken[1]))
                   => /\ o.status = 200
                      /\ o.tokens = {getTokens(id, users[id].email, users[id].role, now).accessToken,
                                     getTokens(id, users[id].email, users[id].role, now).refreshToken}

\* the token does not match what is stored for the id: no row, no hash, or
\* a hash of something else
NoMatch(id, tok) ==
    \/ id \notin DOMAIN users
    \/ users[id].hashedRefreshToken = <<>>
    \/ ~BcryptCompare(tok, users[id].hashedRefreshToken[1])

\* C14: when the token presented does not match the hash stored for the
\* subject, or none is stored, the refresh service refuses, returns no
\* tokens and leaves the table as it was, and so does every refresh request.
C14_RefreshMismatchRejected ==
    \A tok \in issued \cup ForgedTokens, id \in UserIds :
       NoMatch(id, tok)
       => /\ \A o \in {refreshTokens(users, id, tok, now)} :
                o.status # 200 /\ o.tokens = {} /\ o.users = users
          /\ \A route \in RefreshRoutes :
                \A g \in {Guarded(app, route, Bearer(tok), users, now)} :
                   g.status = 0
                   => \A o \in {Handle(route, [id |-> id], users, g.user, now)} :
                         o.status # 200 /\ o.tokens = {} /\ o.users = users

\* a refresh whose verified token is no match for a hash that is stored
\* reached the handler and was refused without tokens
C14_Witness ==
    /\ last.handler = "refresh"
    /\ last.invoked
    /\ last.status # 200
    /\ last.tokens = {}
    /\ \E id \in DOMAIN users :
          /\ users[id].hashedRefreshToken # <<>>
          /\ ~BcryptCompare(last.user[1].refreshToken,
                            users[id].hashedRefreshToken[1])

\* the status a request is answered with: the refusing guard's, or the
\* handler's
Answer(route, hdr, in) ==
    LET g == Guarded(app, route, hdr, users, now)
    IN IF g.status # 0 THEN g.status
       ELSE Handle(route, in, users, g.user, now).status

\* C15: every refresh request that is not answered with tokens is answered
\* 401, whatever the reason of the refusal.
C15_RefreshUniform401 ==
    \A route \in RefreshRoutes, hdr \in AllHeaders, id \in UserIds :
       Answer(route, hdr, [id |-> id]) \in {200, 401}

SignInRoutes == {r \in AuthRoutes : r.handler = "signin"}

C17_AccessExpiry ==
    \A tok \in {k \in issued : k.secret = AT_SECRET} :
       /\ tok.exp = tok.iat + AccessTTL
       /\ \A t \in 0..(MaxTime + AccessTTL) :
             VerifyJwt(Bearer(tok), AT_SECRET, t) <=> t < tok.iat + AccessTTL
       /\ \A route \in SignOutRoutes :
             Guarded(app, route, Bearer(tok), users, now).status = 0
             <=> now < tok.iat + AccessTTL

\* the clock stands at the expiry instant of an access token, which the
\* guard of the sign-out route refuses, and the last sign-out was answered
\* 401 before its handler
C17_Witness ==
    /\ last.handler = "signout"
    /\ ~last.invoked
    /\ last.status = 401
    /\ \E tok \in issued, route \in SignOutRoutes :
          /\ tok.secret = AT_SECRET
          /\ now = tok.iat + AccessTTL
          /\ Guarded(app, route, Bearer(tok), users, now).status = 401

\* refresh tokens and access tokens by their lifetimes
IsRefreshToken(tok) == tok.exp - tok.iat = RefreshTTL

IsAccessToken(tok) == tok.exp - tok.iat = AccessTTL

\* C18: the two kinds of token are signed with different keys; a refresh
\* token is refused by the access-token guard of a protected route and an
\* access token is refused by the refresh-token guard, on the sign-out and
\* refresh routes as everywhere.
C18_NotInterchangeable ==
    /\ AT_SECRET # RT_SECRET
    /\ \A tok \in issued, route \in ProtectedRoutes \cup AuthRoutes :
          /\ IsRefreshToken(tok) /\ ~DeclaredPublic(route)
             => AtGuard(route, Bearer(tok), now, NewRequest).status = 401
          /\ IsAccessToken(tok)
             => RtGuard(route, Bearer(tok), now, NewRequest).status = 401
    /\ \A tok \in issued :
          /\ IsRefreshToken(tok)
             => \A route \in SignOutRoutes :
                   Guarded(app, route, Bearer(tok), users, now).status = 401
          /\ IsAccessToken(tok)
             => \A route \in RefreshRoutes :
                   Guarded(app, route, Bearer(tok), users, now).status = 401

\* tokens of both kinds are out, neither expired, and the last refresh
\* request was stopped by a guard
C18_Witness ==
    /\ last.handler = "refresh"
    /\ ~last.invoked
    /\ last.status = 401
    /\ \E at \in issued, rt \in issued :
          /\ IsAccessToken(at) /\ now < at.exp
          /\ IsRefreshToken(rt) /\ now < rt.exp
          /\ \E route \in RefreshRoutes :
                Guarded(app, route, Bearer(at), users, now).status = 401

\* C19: a request changes the role of no row and adds no row whose role
\* is Admin.
C19_NoRoleChangeByApi ==
    [][/\ \A u \in DOMAIN users \cap DOMAIN users' : users'[u].role = users[u].role
       /\ \A u \in DOMAIN users' \ DOMAIN users : users'[u].role # "Admin"]_vars

EmailsUnique ==
    \A u, v \in DOMAIN users : users[u].email = users[v].email => u = v

\* C20: no two rows share an email, and a create with an email that a row
\* already has is answered 409 and leaves the table as it was.
C20_EmailUnique ==
    /\ EmailsUnique
    /\ \A dto \in CreateDtos :
          (\E u \in DOMAIN users : users[u].email = dto.email)
          => create(users, dto, nextId) = Outcome(409, users, {})
    /\ last.handler = "users.create" /\ last.status # 201 => last.status = 409

\* C12: when two refresh requests with the same token for the same subject
\* have both ended and one of them read the row while the other was between
\* its read of the row and its write, at most one of them was answered with
\* tokens, and exactly one refresh token issued to the subject can be
\* refreshed.
C12_ConcurrentRefresh ==
    \A p, q \in Procs :
       (/\ p # q
        /\ procs[p].pc = "done" /\ procs[q].pc = "done"
        /\ procs[p].token = procs[q].token
        /\ procs[p].id = procs[q].id
        /\ procs[p].overlap)
       => /\ ~(procs[p].status = 200 /\ procs[q].status = 200)
          /\ \A route \in {r \in RefreshRoutes : r.publicM = Public} :
                Cardinality({tok \in issued :
                                /\ tok.sub = procs[p].id
                                /\ RefreshAccepted(route, tok, procs[p].id)}) = 1

\* the digests bcrypt makes of the passwords a client can supply
IsHash(stored) == \E pw \in Passwords : stored = Hash(pw)

\* C21: the password field of every row is a bcrypt digest, and no row
\* holds the plaintext that was supplied when it was created.
C21_PasswordsHashed ==
    \A u \in DOMAIN users :
       /\ IsHash(users[u].password)
       /\ \A pw \in Passwords : users[u].password # <<"raw", pw>>

\* a users table with no row in it
NoRows == [u \in {} |-> <<>>]

\* what a guard can have attached to the request as req.user
Identities ==
    {<<>>} \cup {<<AccessValidate(tok)>> : tok \in issued \cup ForgedTokens}
           \cup {<<RefreshValidate(tok)>> : tok \in issued}

UndeclaredRoutes ==
    {r \in ResourceRoutes \cup AuthRoutes \cup UsersWriteRoutes : Declared(r) = <<>>}

\* C22: on a route where neither the handler nor the controller declares
\* roles, the role guard allows, with or without an identity attached and
\* whatever the users table holds, the empty table included; where it runs
\* in the guard chain of such a route it never refuses.
C22_NoRolesAllows ==
    \A route \in UndeclaredRoutes :
       /\ \A user \in Identities, tbl \in {users, NoRows} :
             RolesGuardCanActivate(route, user, tbl)
       /\ \A hdr \in AllHeaders :
             \A g \in {Guarded(app, route, hdr, users, now)} :
                g.rolesRan => g.rolesPass

\* a sign-in, which declares no roles, went through the global role guard
\* with no identity attached, and the token it returned carries an identity
\* past the role guard of an undeclared resource route
C22_Witness ==
    /\ last.handler = "signin"
    /\ last.status = 200
    /\ last.user = <<>>
    /\ (\E i \in 1..Len(app.global) : app.global[i] = "RolesGuard")
    /\ \E tok \in issued, route \in UndeclaredRoutes :
          /\ LiveAccess(tok)
          /\ RolesGuardCanActivate(route, <<AccessValidate(tok)>>, users)

\* C23: on a route that declares roles, the role guard returns false, and
\* the request is answered 403, when no identity is attached and when the
\* identity's subject has no row in the users table; it returns a boolean
\* in every case.
C23_UnresolvedRoleDenied ==
    \A route \in RoleRoutes :
       /\ RolesGuardCanActivate(route, <<>>, users) = FALSE
       /\ \A tok \in issued \cup ForgedTokens :
             tok.sub \notin DOMAIN users
             => RolesGuardCanActivate(route, <<AccessValidate(tok)>>, users) = FALSE
       /\ \A hdr \in AllHeaders :
             \A g \in {Guarded(app, route, hdr, users, now)} :
                (/\ g.rolesRan
                 /\ \/ g.rolesUser = <<>>
                    \/ g.rolesUser[1].user_id \notin DOMAIN users)
                => ~g.rolesPass /\ g.status = 403

\* a request with the valid access token of a subject whose row has been
\* removed was answered 403 by the role guard
C23_Witness ==
    /\ last.handler \in {"users.findAll", "users.findOne", "users.remove"}
    /\ last.status = 403
    /\ ~last.invoked
    /\ last.user # <<>>
    /\ last.user[1].user_id \notin DOMAIN users
    /\ \E tok \in issued : tok.secret = AT_SECRET /\ now < tok.exp
                            /\ tok.sub = last.user[1].user_id

(* ---------------------------------------------------------------------- *)
(* The Authorization header as text.  A text is a sequence of lexemes: a  *)
(* scheme word, single whitespace characters, a token, other words.  Node *)
(* strips the whitespace around a header value, so a text neither begins  *)
(* nor ends with whitespace; req.get is a cell, <<>> when the header is   *)
(* absent.                                                                 *)
(* ---------------------------------------------------------------------- *)
SP == [space |-> TRUE]

Word(w) == [word |-> w]

\* the texts a client can build around a token
HeaderTexts(tok) ==
    {<<Word("Bearer"), SP, tok>>,
     <<Word("Bearer"), SP, SP, tok>>,
     <<Word("Bearer"), SP, tok, SP, Word("x")>>,
     <<Word("bearer"), SP, tok>>,
     <<Word("Basic"), SP, tok>>,
     <<Word("Bearer")>>,
     <<tok>>}

\* passport-jwt auth_header.parse: /(\S+)\s+(\S+)/, the first two words
parseAuthHeader(h) ==
    LET w == SelectSeq(h, LAMBDA c : c # SP)
    IN IF Len(w) < 2 THEN <<>> ELSE <<[scheme |-> w[1], value |-> w[2]]>>

\* String.prototype.toLowerCase on a scheme word
toLowerCase(word) == IF word = Word("Bearer") THEN Word("bearer") ELSE word

\* ExtractJwt.fromAuthHeaderAsBearerToken: the scheme is compared without
\* regard to case
fromAuthHeaderAsBearerToken(cell) ==
    IF cell = <<>> THEN <<>>
    ELSE LET p == parseAuthHeader(cell[1])
         IN IF p # <<>> /\ toLowerCase(p[1].scheme) = Word("bearer")
            THEN <<p[1].value>> ELSE <<>>

\* authHeader.startsWith('Bearer ')
startsWithBearer(h) == Len(h) >= 2 /\ h[1] = Word("Bearer") /\ h[2] = SP

\* authHeader.replace('Bearer ', '') on a text that starts with it
replaceBearer(h) == SubSeq(h, 3, Len(h))

\* String.prototype.trim
RECURSIVE trim(_)
trim(s) ==
    IF s = <<>> THEN s
    ELSE IF Head(s) = SP THEN trim(Tail(s))
    ELSE IF s[Len(s)] = SP THEN trim(SubSeq(s, 1, Len(s) - 1))
    ELSE s

\* a validate that does not look at the prefix
validate_NoPrefixCheck(cell, payload) ==
    IF cell = <<>> THEN <<>>
    ELSE LET tr == trim(SubSeq(cell[1], 2, Len(cell[1])))
         IN IF tr = <<>> THEN <<>>
            ELSE <<[sub |-> payload.sub, email |-> payload.email,
                    refreshToken |-> tr]>>

\* RefreshStrategy.validate on the header text: <<>> is the
\* UnauthorizedException it throws
validate(cell, payload) ==
    IF cell = <<>> THEN <<>>
    ELSE IF ~startsWithBearer(cell[1]) THEN <<>>
    ELSE LET tr == trim(replaceBearer(cell[1]))
         IN IF tr = <<>> THEN <<>>
            ELSE <<[sub |-> payload.sub, email |-> payload.email,
                    refreshToken |-> tr]>>

\* AuthGuard('refresh') on the header text: extraction, verification of the
\* token with the refresh secret, validate; <<>> is answered 401
RefreshAuthenticate(cell, t) ==
    LET tk == fromAuthHeaderAsBearerToken(cell)
    IN IF tk = <<>> THEN <<>>
       ELSE IF ~VerifyJwt(Bearer(tk[1]), RT_SECRET, t) THEN <<>>
       ELSE validate(cell, tk[1])

\* the header texts of this state, and the absent header
AllHeaderCells ==
    {<<>>} \cup {<<h>> : h \in UNION {HeaderTexts(tok) : tok \in issued \cup ForgedTokens}}

\* the token that a text carries in the bearer position
Carried(cell) == fromAuthHeaderAsBearerToken(cell)[1]

\* the header is absent, does not start with "Bearer ", or has nothing
\* after the prefix
BadHeader(cell) ==
    \/ cell = <<>>
    \/ ~startsWithBearer(cell[1])
    \/ trim(replaceBearer(cell[1])) = <<>>

\* C24 as stated: the refresh verifier answers 401 when the header is
\* absent, does not start with "Bearer " or has nothing after the prefix;
\* otherwise, when the token verifies, it attaches the subject and email
\* of the payload with the text exactly as it stands after the "Bearer "
\* prefix.
C24_RawTokenExactly ==
    \A cell \in AllHeaderCells :
       IF BadHeader(cell) THEN RefreshAuthenticate(cell, now) = <<>>
       ELSE VerifyJwt(Bearer(Carried(cell)), RT_SECRET, now)
            => RefreshAuthenticate(cell, now) =
                  <<[sub |-> Carried(cell).sub, email |-> Carried(cell).email,
                     refreshToken |-> replaceBearer(cell[1])]>>

\* C24, amended: as above, with the text after the prefix stripped of the
\* whitespace around it; on the header "Bearer <token>" that is the token,
\* and the guard of the refresh routes attaches the same claim.
C24_RefreshVerifier ==
    /\ \A cell \in AllHeaderCells :
          IF BadHeader(cell) THEN RefreshAuthenticate(cell, now) = <<>>
          ELSE VerifyJwt(Bearer(Carried(cell)), RT_SECRET, now)
               => RefreshAuthenticate(cell, now) =
                     <<[sub |-> Carried(cell).sub, email |-> Carried(cell).email,
                        refreshToken |-> trim(replaceBearer(cell[1]))]>>
    /\ \A tok \in issued \cup ForgedTokens, route \in RefreshRoutes :
          \A u \in {RefreshAuthenticate(<<<<Word("Bearer"), SP, tok>>>>, now)} :
             \A g \in {RtGuard(route, Bearer(tok), now, NewRequest)} :
                IF u = <<>> THEN g.status = 401
                ELSE /\ g.status = 0
                     /\ g.user[1].sub = u[1].sub
                     /\ g.user[1].email = u[1].email
                     /\ <<g.user[1].refreshToken>> = u[1].refreshToken

\* a refresh request got past the verifier with its claim attached, and a
\* header with two spaces after Bearer carries a token that verifies now
C24_Witness ==
    /\ last.handler = "refresh"
    /\ last.invoked
    /\ last.user # <<>>
    /\ \E tok \in issued :
          /\ VerifyJwt(Bearer(tok), RT_SECRET, now)
          /\ RefreshAuthenticate(<<<<Word("Bearer"), SP, SP, tok>>>>, now) # <<>>

(* ---------------------------------------------------------------------- *)
(* Books: CASL abilities, the policies guard and BooksController          *)
(* ---------------------------------------------------------------------- *)
\* the identities JwtAuthGuard attaches: user 1 is the administrator
BookUsers == {[id |-> 1, isAdmin |-> TRUE],
              [id |-> 2, isAdmin |-> FALSE],
              [id |-> 3, isAdmin |-> FALSE]}

\* can(action, subject, conditions): conditions is <<>> or one field test
Rule(action, subject, conditions) ==
    [action |-> action, subject |-> subject, conditions |-> conditions]

Where(field, value) == <<[field |-> field, value |-> value]>>

\* CaslAbilityFactory.createForUser: there is no cannot rule, so the order
\* of the rules does not matter
createForUser(user) ==
    IF user.isAdmin THEN {Rule("manage", "all", <<>>)}
    ELSE {Rule("read", "Book", <<>>),
          Rule("update", "User", Where("id", user.id)),
          Rule("create", "Book", <<>>),
          Rule("update", "Book", Where("authorId", user.id)),
          Rule("delete", "Book", Where("authorId", user.id))}

\* what ability.can is asked about: a class, or an instance of it
SubjectType(type) == [kind |-> "type", type |-> type]

Instance(type, fields) == [kind |-> "instance", type |-> type, fields |-> fields]

\* Rule.matchesConditions: conditions are tested on instances only; a
\* subject type matches every rule of its type
matchesConditions(rule, subject) ==
    \/ rule.conditions = <<>>
    \/ subject.kind = "type"
    \/ /\ rule.conditions[1].field \in DOMAIN subject.fields
       /\ subject.fields[rule.conditions[1].field] = rule.conditions[1].value

\* Ability.can
can(ability, action, subject) ==
    \E rule \in ability :
       /\ rule.action \in {action, "manage"}
       /\ rule.subject \in {subject.type, "all"}
       /\ matchesConditions(rule, subject)

\* BookPolicies: update and delete ask about the class Book and leave
\* bookId unused
BookPoliciesRead(ability) == can(ability, "read", SubjectType("Book"))

BookPoliciesCreate(ability) == can(ability, "create", SubjectType("Book"))

BookPoliciesUpdate(ability, bookId) == can(ability, "update", SubjectType("Book"))

BookPoliciesDelete(ability, bookId) == can(ability, "delete", SubjectType("Book"))

\* BooksController: the policy of each route
BooksRoutes ==
    {[handler |-> "books.create", policies |-> <<"create">>],
     [handler |-> "books.findAll", policies |-> <<"read">>],
     [handler |-> "books.findOne", policies |-> <<"read">>],
     [handler |-> "books.update", policies |-> <<"update">>],
     [handler |-> "books.remove", policies |-> <<"delete">>]}

\* execPolicyHandler: what a handler can come to.  The handlers of update
\* and remove are (ability) => BookPolicies.update(ability, +id), where id
\* is bound by nothing in the decorator's scope: a build that emits it
\* raises ReferenceError when the handler is called; read with id as the
\* path parameter it returns what BookPolicies returns.
execPolicyHandler(handler, ability, id) ==
    IF handler = "create" THEN {IF BookPoliciesCreate(ability) THEN "allow" ELSE "deny"}
    ELSE IF handler = "read" THEN {IF BookPoliciesRead(ability) THEN "allow" ELSE "deny"}
    ELSE IF handler = "update"
    THEN {"throw", IF BookPoliciesUpdate(ability, id) THEN "allow" ELSE "deny"}
    ELSE {"throw", IF BookPoliciesDelete(ability, id) THEN "allow" ELSE "deny"}

\* PoliciesGuard.canActivate: the verdicts it can come to
RECURSIVE every(_, _, _)
every(handlers, ability, id) ==
    IF handlers = <<>> THEN {"allow"}
    ELSE UNION {IF r = "allow" THEN every(Tail(handlers), ability, id) ELSE {r} :
                  r \in execPolicyHandler(Head(handlers), ability, id)}

PoliciesGuardCanActivate(route, user, id) ==
    IF route.policies = <<>> THEN {"allow"}
    ELSE IF user = <<>> THEN {"deny"}
    ELSE every(route.policies, createForUser(user[1]), id)

\* @UseGuards(JwtAuthGuard, PoliciesGuard): the statuses the guards can
\* answer with, 0 = go on to the handler
BooksGuarded(route, user, id) ==
    IF user = <<>> THEN {401}
    ELSE {IF v = "allow" THEN 0 ELSE IF v = "deny" THEN 403 ELSE 500 :
            v \in PoliciesGuardCanActivate(route, user, id)}

\* the ids a request can name: those of the books at the start and one
\* more
BookIds == {1, 2, 3}

\* the requests' inputs: the path id, and for create the author of the
\* new book
BookInputs(route) ==
    IF route.handler = "books.create" THEN [id : {0}, authorId : {2, 3}]
    ELSE IF route.handler = "books.findAll" THEN [id : {0}]
    ELSE [id : BookIds]

\* BooksService: update writes the row anew, remove deletes it, create
\* adds a row under the next id
BooksHandle(route, in, tbl) ==
    IF route.handler = "books.update" /\ in.id \in DOMAIN tbl
    THEN [tbl EXCEPT ![in.id].rev = @ + 1]
    ELSE IF route.handler = "books.remove" /\ in.id \in DOMAIN tbl
    THEN [b \in DOMAIN tbl \ {in.id} |-> tbl[b]]
    ELSE IF route.handler = "books.create"
    THEN LET id == CHOOSE n \in 1..(Cardinality(DOMAIN tbl) + 1) : n \notin DOMAIN tbl
         IN [b \in DOMAIN tbl \cup {id} |->
               IF b = id THEN [authorId |-> in.authorId, rev |-> 0] ELSE tbl[b]]
    ELSE tbl

\* one request to BooksController, from the guards to the response
BookRequest(route, user, in) ==
    \E st \in BooksGuarded(route, user, in.id) :
       LET tbl == IF st = 0 THEN BooksHandle(route, in, books) ELSE books
       IN /\ tbl # books => events < MaxEvents
          /\ events' = IF tbl # books THEN events + 1 ELSE events
          /\ books' = tbl
          /\ last' = [handler |-> route.handler, user |-> user,
                      invoked |-> (st = 0), status |-> IF st = 0 THEN 200 ELSE st,
                      tokens |-> {}]
          /\ UNCHANGED <<app, users, now, issued, consumed, signedOut, nextId,
                         procs, updates, employees>>

NextBooks ==
    \E route \in BooksRoutes, user \in {<<>>} \cup {<<u>> : u \in BookUsers} :
       \E in \in BookInputs(route) : BookRequest(route, user, in)

SpecBooks == Init /\ [][NextBooks]_vars

BookWriteRoutes == {r \in BooksRoutes : r.handler \in {"books.update", "books.remove"}}

C26_CurrentRoleEmbedded ==
    /\ \A tok \in issued, id \in DOMAIN users :
          /\ \A o \in {refreshTokens(users, id, tok, now)} :
                o.status = 200
                => \A k \in o.tokens : k.sub = id /\ k.role = users[id].role
          /\ \A route \in RefreshRoutes :
                \A g \in {Guarded(app, route, Bearer(tok), users, now)} :
                   g.status = 0
                   => \A o \in {Handle(route, [id |-> id], users, g.user, now)} :
                         \A k \in o.tokens : k.sub = id /\ k.role = users[id].role
    /\ \A u \in DOMAIN users, pw \in Passwords :
          \A o \in {signIn(users, users[u].email, pw, now)} :
             \A k \in o.tokens : k.sub = u /\ k.role = users[u].role

\* a sign-in was answered with tokens, the role of its subject has been
\* changed since, and a refresh with the refresh token of the old role is
\* answered with tokens
C26_Witness ==
    \E tok \in issued :
       /\ IsRefreshToken(tok)
       /\ tok.sub \in DOMAIN users
       /\ tok.role # users[tok.sub].role
       /\ refreshTokens(users, tok.sub, tok, now).status = 200
       /\ \E route \in RefreshRoutes :
             RefreshAccepted(route, tok, tok.sub)

(* ---------------------------------------------------------------------- *)
(* UsersService.update taken one await at a time, with rows removed in    *)
(* between                                                                 *)
(* ---------------------------------------------------------------------- *)
\* the row with the fields the DTO carries written over it
Applied(row, dto) ==
    [row EXCEPT !.email = IF dto.email = <<>> THEN @ ELSE dto.email[1],
                !.role = IF dto.role = <<>> THEN @ ELSE dto.role[1]]

\* the unique index on email refuses the UPDATE
Rejected(tbl, id, dto) ==
    /\ id \in DOMAIN tbl
    /\ dto.email # <<>>
    /\ \E u \in DOMAIN tbl \ {id} : tbl[u].email = dto.email[1]

\* an UPDATE without its WHERE clause
repositoryUpdate_AllRows(tbl, id, dto) ==
    IF Rejected(tbl, id, dto) THEN [ok |-> FALSE, users |-> tbl]
    ELSE [ok |-> TRUE,
          users |-> [u \in DOMAIN tbl |->
                       IF dto.email = <<>> THEN Applied(tbl[u], dto)
                       ELSE IF u = id THEN Applied(tbl[u], dto) ELSE tbl[u]]]

\* usersRepository.update(user_id, updateUserDto): UPDATE ... WHERE user_id;
\* no row of that id is no error
repositoryUpdate(tbl, id, dto) ==
    IF Rejected(tbl, id, dto) THEN [ok |-> FALSE, users |-> tbl]
    ELSE [ok |-> TRUE,
          users |-> [u \in DOMAIN tbl |->
                       IF u = id THEN Applied(tbl[u], dto) ELSE tbl[u]]]

\* the ids a call can name: those of the rows at the start and one more
UpdateIds == UserIds \cup {Cardinality(UserIds) + 1}

UpdateBegin(p, id, dto) ==
    /\ updates[p].pc = "idle"
    /\ updates' = [updates EXCEPT ![p] = [IdleUpdate EXCEPT !.pc = "find", !.id = id,
                                                           !.dto = dto]]
    /\ UNCHANGED <<app, users, now, issued, consumed, signedOut, events, nextId,
                   procs, last, books, employees>>

\* await findOne: no row, NotFoundException
UpdateFind(p) ==
    /\ updates[p].pc = "find"
    /\ updates' = [updates EXCEPT ![p] =
                     IF findOne(users, updates[p].id) = <<>>
                     THEN [@ EXCEPT !.pc = "done", !.status = 404]
                     ELSE [@ EXCEPT !.pc = "write"]]
    /\ UNCHANGED <<app, users, now, issued, consumed, signedOut, events, nextId,
                   procs, last, books, employees>>

\* await usersRepository.update: a failure is rethrown as a plain Error
UpdateWrite(p) ==
    /\ updates[p].pc = "write"
    /\ \E r \in {repositoryUpdate(users, updates[p].id, updates[p].dto)} :
          /\ users' = r.users
          /\ updates' = [updates EXCEPT ![p] =
                           IF r.ok THEN [@ EXCEPT !.pc = "reread", !.wrote = TRUE]
                           ELSE [@ EXCEPT !.pc = "done", !.status = 500]]
    /\ UNCHANGED <<app, now, issued, consumed, signedOut, events, nextId,
                   procs, last, books, employees>>

\* await findOne again: the row as it is now, or NotFoundException
UpdateReread(p) ==
    /\ updates[p].pc = "reread"
    /\ \E updatedUser \in {findOne(users, updates[p].id)} :
          updates' = [updates EXCEPT ![p] =
                        IF updatedUser = <<>>
                        THEN [@ EXCEPT !.pc = "done", !.status = 404]
                        ELSE [@ EXCEPT !.pc = "done", !.status = 200,
                                       !.result = updatedUser]]
    /\ UNCHANGED <<app, users, now, issued, consumed, signedOut, events, nextId,
                   procs, last, books, employees>>

\* UsersService.remove of a row that is there, called by another request
RemoveRow(id) ==
    /\ id \in DOMAIN users
    /\ users' = remove(users, id).users
    /\ UNCHANGED <<app, now, issued, consumed, signedOut, events, nextId,
                   procs, last, updates, books, employees>>

NextUpdates ==
    \/ \E p \in Procs, id \in UpdateIds, dto \in UpdateDtos : UpdateBegin(p, id, dto)
    \/ \E p \in Procs : UpdateFind(p)
    \/ \E p \in Procs : UpdateWrite(p)
    \/ \E p \in Procs : UpdateReread(p)
    \/ \E id \in UserIds : RemoveRow(id)

SpecUpdates == Init /\ [][NextUpdates]_vars

\* the call in slot p leaves the step it stands at
Leaves(p, pc) == updates[p].pc = pc /\ updates'[p].pc # pc

\* a call that finds no row ends with NotFoundException and the table is
\* as it was
UpdateMissing(p) ==
    (Leaves(p, "find") /\ updates[p].id \notin DOMAIN users)
    => /\ updates'[p].pc = "done"
       /\ updates'[p].status = 404
       /\ users' = users

\* the call returns the row as it is stored when it is read again, and
\* ends with NotFoundException when the row is gone by then
UpdateReturns(p) ==
    Leaves(p, "reread")
    => /\ updates'[p].pc = "done"
       /\ users' = users
       /\ IF updates[p].id \in DOMAIN users
          THEN /\ updates'[p].status = 200
               /\ updates'[p].result = <<users[updates[p].id]>>
          ELSE /\ updates'[p].status = 404
               /\ updates'[p].result = <<>>

\* the write of a call on a row that is there puts the DTO's fields in that
\* row and changes no other
UpdateApplies(p) ==
    (Leaves(p, "write") /\ updates[p].id \in DOMAIN users)
    => /\ updates'[p].pc = "reread"
       /\ users' = [users EXCEPT ![updates[p].id] = Applied(@, updates[p].dto)]

\* the same, unless the database refuses the write: then the call ends
\* with a plain Error and the table is as it was
UpdateAppliesOrFails(p) ==
    (Leaves(p, "write") /\ updates[p].id \in DOMAIN users)
    => IF Rejected(users, updates[p].id, updates[p].dto)
       THEN /\ updates'[p].pc = "done"
            /\ updates'[p].status = 500
            /\ users' = users
       ELSE /\ updates'[p].pc = "reread"
            /\ users' = [users EXCEPT ![updates[p].id] = Applied(@, updates[p].dto)]

\* C27 as stated: update on an id with no row raises NotFoundException and
\* leaves the table unchanged; on an id with a row it writes the DTO's
\* fields to that row only and returns the row as stored afterwards; when
\* the row is removed between the write and the second read it raises
\* NotFoundException.
C27_UpdateAsStated ==
    [][\A p \in Procs : UpdateMissing(p) /\ UpdateApplies(p) /\ UpdateReturns(p)]_vars

\* C27, amended: as above, except that a write the database refuses (the
\* DTO's email is that of another row) ends the call with a plain Error
\* and leaves the table unchanged.
C27_Update ==
    [][\A p \in Procs :
          UpdateMissing(p) /\ UpdateAppliesOrFails(p) /\ UpdateReturns(p)]_vars

\* one call wrote its row, the row was removed before the second read and
\* the call ended with NotFoundException; another call returned its row as
\* stored
C27_Witness ==
    \E p, q \in Procs :
       /\ updates[p].pc = "done" /\ updates[p].wrote
       /\ updates[p].status = 404
       /\ updates[p].id \notin DOMAIN users
       /\ updates[q].pc = "done" /\ updates[q].status = 200
       /\ updates[q].id \in DOMAIN users
       /\ updates[q].result = <<users[updates[q].id]>>
       /\ updates[q].result[1] = Applied(updates[q].result[1], updates[q].dto)

(* ---------------------------------------------------------------------- *)
(* The employees controller: an array in memory                           *)
(* ---------------------------------------------------------------------- *)
\* what a handler leaves: the response status, the array, the body
Reply(status, list, body) == [status |-> status, employees |-> list, body |-> body]

\* bodies of POST and PUT: Partial<IEmployee>, a field is a cell
EmployeeData ==
    {[name |-> <<"Ann Lee">>, age |-> <<41>>, department |-> <<"Ops">>],
     [name |-> <<>>, age |-> <<41>>, department |-> <<>>],
     [name |-> <<>>, age |-> <<>>, department |-> <<"Ops">>],
     [name |-> <<>>, age |-> <<>>, department |-> <<>>]}

\* the ids a path can name
EmployeeIds == 1..(Len(InitEmployees) + 2)

\* Array.prototype.findIndex, counted from 0: -1 when nothing matches
findIndex(list, id) ==
    IF \E i \in 1..Len(list) : list[i].id = id
    THEN (CHOOSE i \in 1..Len(list) :
             list[i].id = id /\ \A j \in 1..(i - 1) : list[j].id # id) - 1
    ELSE -1

\* Array.prototype.splice(start, 1): a negative start counts from the end
splice(list, start) ==
    LET from == IF start < 0 THEN (IF Len(list) + start < 0 THEN 0 ELSE Len(list) + start)
                ELSE IF start > Len(list) THEN Len(list) ELSE start
    IN IF from >= Len(list) THEN list
       ELSE SubSeq(list, 1, from) \o SubSeq(list, from + 2, Len(list))

\* AppController.create: the id after that of the last element; on the
\* empty array employees[-1] is undefined and reading its id is a
\* TypeError
employeesCreate(list, data) ==
    IF Len(list) = 0 THEN Reply(500, list, <<>>)
    ELSE LET newEmployee == [id |-> list[Len(list)].id + 1, name |-> data.name,
                             age |-> data.age, department |-> data.department]
         IN Reply(201, Append(list, newEmployee), <<newEmployee>>)

\* AppController.update: the first field of name, age, department that
\* the body carries is written
employeesUpdate(list, data, param) ==
    LET index == findIndex(list, param)
    IN IF index = -1 THEN Reply(200, list, <<"not found">>)
       ELSE LET i == index + 1
                employee ==
                    IF data.name # <<>> THEN [list[i] EXCEPT !.name = data.name]
                    ELSE IF data.age # <<>> THEN [list[i] EXCEPT !.age = data.age]
                    ELSE IF data.department # <<>>
                    THEN [list[i] EXCEPT !.department = data.department]
                    ELSE list[i]
            IN Reply(200, [list EXCEPT ![i] = employee], <<employee>>)

\* AppController.delete
employeesDelete(list, params) ==
    LET index == findIndex(list, params)
    IN Reply(200, splice(list, index), <<"deleted", index>>)

\* one request to the employees controller
EmployeeRespond(handler, r) ==
    /\ events < MaxCalls
    /\ events' = events + 1
    /\ employees' = r.employees
    /\ last' = [handler |-> handler, user |-> <<>>, invoked |-> TRUE,
                status |-> r.status, tokens |-> {}]
    /\ UNCHANGED <<app, users, now, issued, consumed, signedOut, nextId, procs,
                   updates, books>>

EmployeeCreate(data) == EmployeeRespond("employees.create", employeesCreate(employees, data))

EmployeeUpdate(data, id) ==
    EmployeeRespond("employees.update", employeesUpdate(employees, data, id))

EmployeeDelete(id) == EmployeeRespond("employees.delete", employeesDelete(employees, id))

NextEmployees ==
    \/ \E data \in EmployeeData : EmployeeCreate(data)
    \/ \E data \in EmployeeData, id \in EmployeeIds : EmployeeUpdate(data, id)
    \/ \E id \in EmployeeIds : EmployeeDelete(id)

SpecEmployees == Init /\ [][NextEmployees]_vars

\* the array without its elements of the given id
Without(list, id) == SelectSeq(list, LAMBDA e : e.id # id)

\* C28: delete removes the employee whose id is the path parameter and no
\* other, and leaves the array as it was when no employee has that id.
C28_DeleteExactly ==
    \A id \in EmployeeIds :
       employeesDelete(employees, id).employees = Without(employees, id)

EmployeeIdsDistinct ==
    \A i, j \in 1..Len(employees) : employees[i].id = employees[j].id => i = j

\* C29: the ids of the employees are pairwise distinct, and in every state
\* create succeeds and gives the new employee an id that no employee of
\* the array has.
C29_CreateFreshId ==
    /\ EmployeeIdsDistinct
    /\ \A data \in EmployeeData :
          \A r \in {employeesCreate(employees, data)} :
             /\ r.status = 201
             /\ Len(r.employees) = Len(employees) + 1
             /\ \A i \in 1..Len(employees) :
                   employees[i].id # r.employees[Len(r.employees)].id

====
